---- MODULE Spec2Model ----
(***************************************************************************)
(* Model of the schema enforcer (schema-enforcer/scripts/                  *)
(* validate_and_fix_json.py) and of the diagnostic of the config patcher   *)
(* (resilient-config-patcher/scripts/repair_json.py).                      *)
(*                                                                         *)
(* Text is a sequence of one-character strings.  A JSON value is a record  *)
(*   [t, n, x, s, e]                                                       *)
(* t: "null" | "bool" | "int" | "float" | "str" | "list" | "dict"          *)
(* n: the integer (int), 0/1 (bool), the digits of a float                 *)
(* x: the number of fractional digits of a float (value = n / 10^x)        *)
(* s: the characters of a str; "inf", "-inf", "nan" for a special float    *)
(* e: the elements of a list (values) or of a dict (records [k, v])        *)
(***************************************************************************)
EXTENDS Integers, Sequences, FiniteSets, TLC

\* ------------------------------------------------------------------------
\* JSON values as json.loads builds them
\* ------------------------------------------------------------------------

None == [t |-> "null", n |-> 0, x |-> 0, s |-> <<>>, e |-> <<>>]

JBool(b) == [t |-> "bool", n |-> IF b THEN 1 ELSE 0, x |-> 0, s |-> <<>>, e |-> <<>>]

JInt(i) == [t |-> "int", n |-> i, x |-> 0, s |-> <<>>, e |-> <<>>]

RECURSIVE Normalize(_, _)
Normalize(m, d) ==
    IF d > 0 /\ m % 10 = 0 THEN Normalize(m \div 10, d - 1) ELSE <<m, d>>

\* the float m / 10^d
JFloat(m, d) ==
    LET nd == Normalize(m, d)
    IN  [t |-> "float", n |-> nd[1], x |-> nd[2], s |-> <<>>, e |-> <<>>]

SpecialFloat(name) == [t |-> "float", n |-> 0, x |-> 0, s |-> name, e |-> <<>>]

Inf == SpecialFloat(<<"i", "n", "f">>)

NegInf == SpecialFloat(<<"-", "i", "n", "f">>)

NaN == SpecialFloat(<<"n", "a", "n">>)

JStr(chars) == [t |-> "str", n |-> 0, x |-> 0, s |-> chars, e |-> <<>>]

JList(items) == [t |-> "list", n |-> 0, x |-> 0, s |-> <<>>, e |-> items]

JDict(pairs) == [t |-> "dict", n |-> 0, x |-> 0, s |-> <<>>, e |-> pairs]

\* key in d, for a dict d
HasKey(d, key) == \E i \in 1..Len(d.e) : d.e[i].k = key

\* d[key] for a dict d that holds key
GetItem(d, key) == d.e[CHOOSE i \in 1..Len(d.e) : d.e[i].k = key].v

\* d[key] = val: a held key keeps its position, a new key goes last
SetItem(d, key, val) ==
    IF HasKey(d, key)
    THEN JDict([i \in 1..Len(d.e) |->
                 IF d.e[i].k = key THEN [k |-> key, v |-> val] ELSE d.e[i]])
    ELSE JDict(Append(d.e, [k |-> key, v |-> val]))

Keys(d) == [i \in 1..Len(d.e) |-> d.e[i].k]

\* ------------------------------------------------------------------------
\* Text
\* ------------------------------------------------------------------------

\* the grave accent character (U+0060) of a Markdown fence; the module's own
\* syntax cannot hold that character in a string, so it is written by name
Backtick == "backtick"

Digits == <<"0", "1", "2", "3", "4", "5", "6", "7", "8", "9">>

IsDigit(c) == \E i \in 1..10 : Digits[i] = c

DigitVal(c) == (CHOOSE i \in 1..10 : Digits[i] = c) - 1

\* the whitespace of the JSON grammar and of the regex class \s
IsSpace(c) == c \in {" ", "\t", "\n", "\r"}

\* text[from..to], empty when from > to
Slice(text, from, to) ==
    IF from > to THEN <<>> ELSE [i \in 1..(to - from + 1) |-> text[from + i - 1]]

\* text[i:].startswith(word), i one-based
StartsWith(text, i, word) ==
    /\ i + Len(word) - 1 <= Len(text)
    /\ \A j \in 1..Len(word) : text[i + j - 1] = word[j]

RECURSIVE SkipSpace(_, _)
\* the first index >= i of text that holds no whitespace (Len + 1 at the end)
SkipSpace(text, i) ==
    IF i <= Len(text) /\ IsSpace(text[i]) THEN SkipSpace(text, i + 1) ELSE i

RECURSIVE SkipSpaceBack(_, _)
\* the last index <= i of text that holds no whitespace (0 at the start)
SkipSpaceBack(text, i) ==
    IF i >= 1 /\ IsSpace(text[i]) THEN SkipSpaceBack(text, i - 1) ELSE i

\* str.strip()
Strip(text) == Slice(text, SkipSpace(text, 1), SkipSpaceBack(text, Len(text)))

\* str.count(c) for one character
Count(text, c) == Cardinality({ i \in 1..Len(text) : text[i] = c })

\* the least index in the set of match positions S, 0 when there is none
FirstIndex(S) ==
    IF S = {} THEN 0 ELSE CHOOSE i \in S : \A j \in S : i <= j

RECURSIVE Repeat(_, _)
\* c * k
Repeat(c, k) == IF k <= 0 THEN <<>> ELSE <<c>> \o Repeat(c, k - 1)

\* ------------------------------------------------------------------------
\* json.loads: the strict parser (objects, arrays, strings without escapes,
\* integers, decimal fractions, true/false/null, NaN/Infinity/-Infinity)
\* ------------------------------------------------------------------------

\* text[i], "" past either end
At(text, i) == IF i >= 1 /\ i <= Len(text) THEN text[i] ELSE ""

\* a parse that ended before index end
Ok(val, end) == [ok |-> TRUE, val |-> val, end |-> end, msg |-> "", pos |-> 0]

\* JSONDecodeError(msg, text, pos) for the character at index i (pos is zero-based)
Fail(msg, i) == [ok |-> FALSE, val |-> None, end |-> 0, msg |-> msg, pos |-> i - 1]

RECURSIVE ScanDigits(_, _)
\* the index after the digits that start at i
ScanDigits(text, i) ==
    IF IsDigit(At(text, i)) THEN ScanDigits(text, i + 1) ELSE i

RECURSIVE DigitsValue(_)
\* the number a sequence of digits writes
DigitsValue(ds) ==
    IF ds = <<>> THEN 0
    ELSE 10 * DigitsValue(SubSeq(ds, 1, Len(ds) - 1)) + DigitVal(ds[Len(ds)])

\* NUMBER_RE: (-?(?:0|[1-9]\d*))(\.\d+)? at index i; end = i when it does not match
match_number(text, i) ==
    LET neg   == At(text, i) = "-"
        a     == IF neg THEN i + 1 ELSE i
        b     == IF At(text, a) = "0" THEN a + 1 ELSE ScanDigits(text, a)
        hasFr == At(text, b) = "." /\ IsDigit(At(text, b + 1))
        c     == IF hasFr THEN ScanDigits(text, b + 1) ELSE b
        ip    == DigitsValue(Slice(text, a, b - 1))
        all   == DigitsValue(Slice(text, a, b - 1) \o Slice(text, b + 1, c - 1))
        sign  == IF neg THEN -1 ELSE 1
    IN  IF b = a THEN Fail("Expecting value", i)
        ELSE IF hasFr THEN Ok(JFloat(sign * all, c - b - 1), c)
        ELSE Ok(JInt(sign * ip), b)

RECURSIVE ScanString(_, _, _)
\* py_scanstring from index i, the index after the opening quote at index begin
ScanString(text, begin, i) ==
    IF i > Len(text) THEN Fail("Unterminated string starting at", begin)
    ELSE IF text[i] = "\"" THEN Ok(JStr(Slice(text, begin + 1, i - 1)), i + 1)
    ELSE IF text[i] \in {"\n", "\t", "\r"}
         THEN Fail("Invalid control character at", i)
    ELSE ScanString(text, begin, i + 1)

scanstring(text, i) == ScanString(text, i - 1, i)

RECURSIVE scan_once(_, _)
RECURSIVE ObjectLoop(_, _, _)
RECURSIVE ArrayLoop(_, _, _)

\* JSONObject's loop, i the index after the opening quote of the next key
ObjectLoop(text, i, pairs) ==
    LET key == scanstring(text, i)
        c1  == IF At(text, key.end) # ":" THEN SkipSpace(text, key.end) ELSE key.end
        val == scan_once(text, SkipSpace(text, c1 + 1))
        c2  == SkipSpace(text, val.end)
        got == SetItem(pairs, key.val.s, val.val)
        c3  == SkipSpace(text, c2 + 1)
    IN  IF ~key.ok THEN key
        ELSE IF At(text, c1) # ":" THEN Fail("Expecting ':' delimiter", c1)
        ELSE IF ~val.ok THEN val
        ELSE IF At(text, c2) = "}" THEN Ok(got, c2 + 1)
        ELSE IF At(text, c2) # "," THEN Fail("Expecting ',' delimiter", c2)
        ELSE IF At(text, c3) # "\""
             THEN Fail("Expecting property name enclosed in double quotes", c3)
        ELSE ObjectLoop(text, c3 + 1, got)

\* JSONObject, i the index after the opening brace
parse_object(text, i) ==
    LET c == IF At(text, i) # "\"" THEN SkipSpace(text, i) ELSE i
    IN  IF At(text, c) = "}" THEN Ok(JDict(<<>>), c + 1)
        ELSE IF At(text, c) # "\""
             THEN Fail("Expecting property name enclosed in double quotes", c)
        ELSE ObjectLoop(text, c + 1, JDict(<<>>))

\* JSONArray's loop, i the index of the next element
ArrayLoop(text, i, items) ==
    LET val == scan_once(text, i)
        c   == SkipSpace(text, val.end)
        got == Append(items, val.val)
    IN  IF ~val.ok THEN val
        ELSE IF At(text, c) = "]" THEN Ok(JList(got), c + 1)
        ELSE IF At(text, c) # "," THEN Fail("Expecting ',' delimiter", c)
        ELSE ArrayLoop(text, SkipSpace(text, c + 1), got)

\* JSONArray, i the index after the opening bracket
parse_array(text, i) ==
    LET c == SkipSpace(text, i)
    IN  IF At(text, c) = "]" THEN Ok(JList(<<>>), c + 1)
        ELSE ArrayLoop(text, c, <<>>)

\* py_make_scanner's _scan_once; StopIteration(idx) is "Expecting value" at idx
scan_once(text, i) ==
    LET c   == At(text, i)
        num == match_number(text, i)
    IN  IF c = "\"" THEN scanstring(text, i + 1)
        ELSE IF c = "{" THEN parse_object(text, i + 1)
        ELSE IF c = "[" THEN parse_array(text, i + 1)
        ELSE IF StartsWith(text, i, <<"n", "u", "l", "l">>) THEN Ok(None, i + 4)
        ELSE IF StartsWith(text, i, <<"t", "r", "u", "e">>) THEN Ok(JBool(TRUE), i + 4)
        ELSE IF StartsWith(text, i, <<"f", "a", "l", "s", "e">>)
             THEN Ok(JBool(FALSE), i + 5)
        ELSE IF num.ok THEN num
        ELSE IF StartsWith(text, i, <<"N", "a", "N">>) THEN Ok(NaN, i + 3)
        ELSE IF StartsWith(text, i, <<"I", "n", "f", "i", "n", "i", "t", "y">>)
             THEN Ok(Inf, i + 8)
        ELSE IF StartsWith(text, i, <<"-", "I", "n", "f", "i", "n", "i", "t", "y">>)
             THEN Ok(NegInf, i + 9)
        ELSE Fail("Expecting value", i)

\* json.loads(text): JSONDecoder.decode
loads(text) ==
    LET r   == scan_once(text, SkipSpace(text, 1))
        end == SkipSpace(text, r.end)
    IN  IF ~r.ok THEN r
        ELSE IF end # Len(text) + 1 THEN Fail("Extra data", end)
        ELSE r

\* JSONDecodeError.lineno of an error at zero-based pos
lineno(text, pos) == Count(Slice(text, 1, pos), "\n") + 1

\* text.rindex("\n", 0, pos) as a one-based index, 0 when there is none
LastNewline(text, i) ==
    IF \E k \in 1..i : text[k] = "\n"
    THEN CHOOSE k \in 1..i : text[k] = "\n" /\ \A j \in (k + 1)..i : text[j] # "\n"
    ELSE 0

\* JSONDecodeError.colno of an error at zero-based pos
colno(text, pos) == pos + 1 - LastNewline(text, pos)

\* ------------------------------------------------------------------------
\* heuristic_repair
\* ------------------------------------------------------------------------

Fence == <<Backtick, Backtick, Backtick>>

\* the first index >= i where a fence starts, 0 when there is none
FindFence(text, i) ==
    LET FenceAt(k) == StartsWith(text, k, Fence)
    IN  FirstIndex({ k \in i..Len(text) : FenceAt(k) })

\* ([\s\S]*?)\s*(fence) from index g: the index after the shortest group, 0
\* when no closing fence follows
LazyEnd(text, g) ==
    LET CloserAfter(k) == StartsWith(text, SkipSpace(text, k), Fence)
    IN  FirstIndex({ k \in g..Len(text) : CloserAfter(k) })

\* 1. re.search of (fence)(?:json)?\s*([\s\S]*?)\s*(fence) in text: group(1)
\* of the first match, text itself when there is no fence or no match
StripFences(text) ==
    LET a == FindFence(text, 1)
        b == IF StartsWith(text, a + 3, <<"j", "s", "o", "n">>) THEN a + 7 ELSE a + 3
        p == SkipSpace(text, b)
        g == LazyEnd(text, p)
    IN  IF a = 0 \/ g = 0 THEN text ELSE Slice(text, p, g - 1)

RECURSIVE JoinStrings(_, _)
\* 2. re.sub(r'"\s*(?=")', '", ', text), from index i
JoinStrings(text, i) ==
    LET Match(k) == text[k] = "\"" /\ At(text, SkipSpace(text, k + 1)) = "\""
        m        == FirstIndex({ k \in i..Len(text) : Match(k) })
    IN  IF m = 0 THEN Slice(text, i, Len(text))
        ELSE Slice(text, i, m - 1) \o <<"\"", ",", " ">>
             \o JoinStrings(text, SkipSpace(text, m + 1))

\* the length of (\d|true|false|null) at index i, 0 when it does not match
LiteralLen(text, i) ==
    IF IsDigit(At(text, i)) THEN 1
    ELSE IF StartsWith(text, i, <<"t", "r", "u", "e">>) THEN 4
    ELSE IF StartsWith(text, i, <<"f", "a", "l", "s", "e">>) THEN 5
    ELSE IF StartsWith(text, i, <<"n", "u", "l", "l">>) THEN 4
    ELSE 0

RECURSIVE InsertCommas(_, _)
\* 3. re.sub(r'(\d|true|false|null)\s*(?=")', r'\1, ', text), from index i
InsertCommas(text, i) ==
    LET Match(k) == /\ LiteralLen(text, k) > 0
                    /\ At(text, SkipSpace(text, k + LiteralLen(text, k))) = "\""
        m        == FirstIndex({ k \in i..Len(text) : Match(k) })
        e        == m + LiteralLen(text, m)
    IN  IF m = 0 THEN Slice(text, i, Len(text))
        ELSE Slice(text, i, e - 1) \o <<",", " ">>
             \o InsertCommas(text, SkipSpace(text, e))

RECURSIVE DropTrailingCommas(_, _)
\* 4. re.sub(r',(\s*?[}\]])', r'\1', text), from index i
DropTrailingCommas(text, i) ==
    LET Match(k) == text[k] = "," /\ At(text, SkipSpace(text, k + 1)) \in {"}", "]"}
        m        == FirstIndex({ k \in i..Len(text) : Match(k) })
        q        == SkipSpace(text, m + 1)
    IN  IF m = 0 THEN Slice(text, i, Len(text))
        ELSE Slice(text, i, m - 1) \o Slice(text, m + 1, q)
             \o DropTrailingCommas(text, q + 1)

\* 5. append the closers that the counts of openers say are missing
BalanceBraces(text) ==
    LET curly  == text \o Repeat("}", Count(text, "{") - Count(text, "}"))
    IN  curly \o Repeat("]", Count(curly, "[") - Count(curly, "]"))

heuristic_repair(broken_json) ==
    BalanceBraces(
        DropTrailingCommas(
            InsertCommas(
                JoinStrings(StripFences(Strip(broken_json)), 1), 1), 1))

\* ------------------------------------------------------------------------
\* json.dumps(obj, indent=4)
\* ------------------------------------------------------------------------

RECURSIVE NatText(_)
\* str(k) for k >= 0
NatText(k) == IF k < 10 THEN <<Digits[k + 1]>> ELSE NatText(k \div 10) \o <<Digits[(k % 10) + 1]>>

\* str(i)
IntText(i) == IF i < 0 THEN <<"-">> \o NatText(-i) ELSE NatText(i)

\* float.__repr__ of m / 10^d (normalized, abs below 10^16)
FloatText(m, d) ==
    LET a    == IF m < 0 THEN -m ELSE m
        ds   == NatText(a)
        pad  == Repeat("0", d + 1 - Len(ds)) \o ds
        ip   == Slice(pad, 1, Len(pad) - d)
        fp   == IF d = 0 THEN <<"0">> ELSE Slice(pad, Len(pad) - d + 1, Len(pad))
    IN  (IF m < 0 THEN <<"-">> ELSE <<>>) \o ip \o <<".">> \o fp

\* the text json.dumps writes for a special float
SpecialText(name) ==
    IF name = Inf.s THEN <<"I", "n", "f", "i", "n", "i", "t", "y">>
    ELSE IF name = NegInf.s THEN <<"-", "I", "n", "f", "i", "n", "i", "t", "y">>
    ELSE <<"N", "a", "N">>

RECURSIVE dumps_indent(_, _)
RECURSIVE DumpItems(_, _, _, _)

\* the items of a list or dict from index i, each on its own line at level
DumpItems(v, i, level, first) ==
    IF i > Len(v.e) THEN <<>>
    ELSE (IF first THEN <<>> ELSE <<",">>) \o <<"\n">> \o Repeat(" ", 4 * level)
         \o (IF v.t = "dict"
             THEN <<"\"">> \o v.e[i].k \o <<"\"", ":", " ">>
                  \o dumps_indent(v.e[i].v, level)
             ELSE dumps_indent(v.e[i], level))
         \o DumpItems(v, i + 1, level, FALSE)

\* json.dumps(v, indent=4) for a value nested at level (strings hold no
\* character that needs an escape: the parser above reads none)
dumps_indent(v, level) ==
    CASE v.t = "null"  -> <<"n", "u", "l", "l">>
      [] v.t = "bool"  -> IF v.n = 1 THEN <<"t", "r", "u", "e">>
                          ELSE <<"f", "a", "l", "s", "e">>
      [] v.t = "int"   -> IntText(v.n)
      [] v.t = "float" -> IF v.s # <<>> THEN SpecialText(v.s) ELSE FloatText(v.n, v.x)
      [] v.t = "str"   -> <<"\"">> \o v.s \o <<"\"">>
      [] v.t = "list"  -> IF v.e = <<>> THEN <<"[", "]">>
                          ELSE <<"[">> \o DumpItems(v, 1, level + 1, TRUE)
                               \o <<"\n">> \o Repeat(" ", 4 * level) \o <<"]">>
      [] v.t = "dict"  -> IF v.e = <<>> THEN <<"{", "}">>
                          ELSE <<"{">> \o DumpItems(v, 1, level + 1, TRUE)
                               \o <<"\n">> \o Repeat(" ", 4 * level) \o <<"}">>

dumps(v) == dumps_indent(v, 0)

\* ------------------------------------------------------------------------
\* int(val), as the enforcer calls it on a value that is not an int
\* ------------------------------------------------------------------------

Converted(i) == [n |-> i, exc |-> ""]

Raised(exc) == [n |-> 0, exc |-> exc]

RECURSIVE Pow10(_)
Pow10(d) == IF d = 0 THEN 1 ELSE 10 * Pow10(d - 1)

\* digits, with single underscores only between two digits
IsIntLiteral(ds) ==
    /\ ds # <<>>
    /\ \A i \in 1..Len(ds) :
          \/ IsDigit(ds[i])
          \/ ds[i] = "_" /\ IsDigit(At(ds, i - 1)) /\ IsDigit(At(ds, i + 1))

WithoutUnderscores(ds) == SelectSeq(ds, IsDigit)

\* int(str): surrounding whitespace, one optional sign, decimal digits
IntOfStr(chars) ==
    LET t      == Strip(chars)
        signed == At(t, 1) \in {"+", "-"}
        ds     == IF signed THEN Tail(t) ELSE t
        mag    == DigitsValue(WithoutUnderscores(ds))
    IN  IF IsIntLiteral(ds)
        THEN Converted(IF At(t, 1) = "-" THEN -mag ELSE mag)
        ELSE Raised("ValueError")

\* int(float): truncation toward zero; OverflowError for an infinity,
\* ValueError for NaN
IntOfFloat(v) ==
    IF v.s = NaN.s THEN Raised("ValueError")
    ELSE IF v.s # <<>> THEN Raised("OverflowError")
    ELSE IF v.n < 0 THEN Converted(-((-v.n) \div Pow10(v.x)))
    ELSE Converted(v.n \div Pow10(v.x))

int(v) ==
    CASE v.t = "int"   -> Converted(v.n)
      [] v.t = "bool"  -> Converted(v.n)
      [] v.t = "float" -> IntOfFloat(v)
      [] v.t = "str"   -> IntOfStr(v.s)
      [] OTHER         -> Raised("TypeError")

\* ------------------------------------------------------------------------
\* The schema and the enforcer loop
\* ------------------------------------------------------------------------

\* str.lower() of a type tag
Lower(dtype) ==
    CASE dtype = "String"  -> "string"
      [] dtype = "Integer" -> "integer"
      [] dtype = "INTEGER" -> "integer"
      [] dtype = "Float"   -> "float"
      [] dtype = "Boolean" -> "boolean"
      [] dtype = "List"    -> "list"
      [] dtype = "Dict"    -> "dict"
      [] OTHER             -> dtype

get_safe_default(dtype) ==
    LET d == Lower(dtype)
    IN  CASE d = "string"  -> JStr(<<>>)
          [] d = "integer" -> JInt(0)
          [] d = "float"   -> JFloat(0, 0)
          [] d = "boolean" -> JBool(FALSE)
          [] d = "list"    -> JList(<<>>)
          [] d = "dict"    -> JDict(<<>>)
          [] OTHER         -> None

\* a schema entry: the keys its JSON object holds and their values
FieldEntry(keys, name, type, required, default) ==
    [keys |-> keys, name |-> name, type |-> type, required |-> required,
     default |-> default]

\* field.get('type', 'string')
FieldType(field) == IF "type" \in field.keys THEN field.type ELSE "string"

\* field.get('required', False)
FieldRequired(field) == IF "required" \in field.keys THEN field.required ELSE FALSE

\* field.get('default', None)
FieldDefault(field) == IF "default" \in field.keys THEN field.default ELSE None

\* name in data; "TypeError" when data supports no membership test
Contains(data, name) ==
    CASE data.t = "dict" -> IF HasKey(data, name) THEN "yes" ELSE "no"
      [] data.t = "list" -> IF \E i \in 1..Len(data.e) : data.e[i] = JStr(name)
                            THEN "yes" ELSE "no"
      [] data.t = "str"  -> IF \E i \in 1..(Len(data.s) + 1) : StartsWith(data.s, i, name)
                            THEN "yes" ELSE "no"
      [] OTHER           -> "TypeError"

\* a line of the correction report
Correction(kind, name, value, dtype) ==
    [kind |-> kind, name |-> name, value |-> value, dtype |-> dtype]

\* the state of the loop: the document built so far, the corrections, and
\* the exception that left the loop ("" while none did)
LoopState(ordered, corrections, exc) ==
    [ordered_data |-> ordered, corrections |-> corrections, exc |-> exc]

\* 3A in the variant that injects required fields only and never backfills
\* an optional field from its default
InjectMissingRequiredOnly(st, field) ==
    LET name        == field.name
        dtype       == FieldType(field)
        final_value == IF FieldDefault(field) # None THEN FieldDefault(field)
                       ELSE get_safe_default(dtype)
    IN  IF FieldRequired(field)
        THEN LoopState(SetItem(st.ordered_data, name, final_value),
                       Append(st.corrections,
                              Correction("MISSING FIELD", name, final_value, dtype)),
                       "")
        ELSE st

\* 3A: the field is missing
InjectMissing(st, field) ==
    LET name        == field.name
        dtype       == FieldType(field)
        final_value == IF FieldDefault(field) # None THEN FieldDefault(field)
                       ELSE get_safe_default(dtype)
    IN  IF FieldRequired(field) \/ FieldDefault(field) # None
        THEN LoopState(SetItem(st.ordered_data, name, final_value),
                       Append(st.corrections,
                              Correction("MISSING FIELD", name, final_value, dtype)),
                       "")
        ELSE st

\* 3B with the cast report appended outside the type(val) != int test
EnforceTypeAlwaysRecording(st, field, val) ==
    LET name     == field.name
        cast     == int(val)
        fallback == IF FieldDefault(field) # None THEN FieldDefault(field) ELSE JInt(0)
    IN  IF FieldType(field) # "integer"
        THEN LoopState(SetItem(st.ordered_data, name, val), st.corrections, "")
        ELSE IF cast.exc = ""
        THEN LoopState(SetItem(st.ordered_data, name, JInt(cast.n)),
                       Append(st.corrections, Correction("TYPE FIX", name, None, "")),
                       "")
        ELSE IF cast.exc \in {"ValueError", "TypeError"}
        THEN LoopState(SetItem(st.ordered_data, name, fallback),
                       Append(st.corrections,
                              Correction("TYPE ERROR", name, fallback, "")),
                       "")
        ELSE LoopState(st.ordered_data, st.corrections, cast.exc)

\* 3B: the field exists
EnforceType(st, field, val) ==
    LET name     == field.name
        cast     == int(val)
        fallback == IF FieldDefault(field) # None THEN FieldDefault(field) ELSE JInt(0)
    IN  IF FieldType(field) # "integer" \/ val.t = "int"
        THEN LoopState(SetItem(st.ordered_data, name, val), st.corrections, "")
        ELSE IF cast.exc = ""
        THEN LoopState(SetItem(st.ordered_data, name, JInt(cast.n)),
                       Append(st.corrections, Correction("TYPE FIX", name, None, "")),
                       "")
        ELSE IF cast.exc \in {"ValueError", "TypeError"}
        THEN LoopState(SetItem(st.ordered_data, name, fallback),
                       Append(st.corrections,
                              Correction("TYPE ERROR", name, fallback, "")),
                       "")
        ELSE LoopState(st.ordered_data, st.corrections, cast.exc)

\* one iteration of the loop
EnforceField(st, data, field) ==
    LET present == Contains(data, field.name)
    IN  IF "name" \notin field.keys
        THEN LoopState(st.ordered_data, st.corrections, "KeyError")
        ELSE IF present = "TypeError"
        THEN LoopState(st.ordered_data, st.corrections, "TypeError")
        ELSE IF present = "no" THEN InjectMissing(st, field)
        ELSE IF data.t # "dict"
        THEN LoopState(st.ordered_data, st.corrections, "TypeError")
        ELSE EnforceType(st, field, GetItem(data, field.name))

RECURSIVE EnforceFrom(_, _, _, _)
\* for field in fields, from index i, until an exception leaves the loop
EnforceFrom(st, data, fields, i) ==
    IF i > Len(fields) \/ st.exc # "" THEN st
    ELSE EnforceFrom(EnforceField(st, data, fields[i]), data, fields, i + 1)

\* the pass-through loop of an enforcer that emits declared fields only
PassFromDeclaredOnly(ordered, data, i) == ordered

RECURSIVE PassFrom(_, _, _)
\* for k, v in data.items(): if k not in ordered_data: ordered_data[k] = v
PassFrom(ordered, data, i) ==
    IF i > Len(data.e) THEN ordered
    ELSE PassFrom(IF HasKey(ordered, data.e[i].k) THEN ordered
                  ELSE SetItem(ordered, data.e[i].k, data.e[i].v),
                  data, i + 1)

\* ------------------------------------------------------------------------
\* The two scripts as state machines
\* ------------------------------------------------------------------------

VARIABLES
    script,          \* which script runs: "validate_and_fix" or "repair_and_write"
    arg_input,       \* the text given on the command line
    schema_file,     \* what schema_path holds on disk
    input_json_str,  \* the parameter input_json_str, or content_str
    schema,          \* the loaded schema
    data,            \* the parsed document
    repaired_str,    \* the text heuristic_repair returned
    ordered_data,    \* the document being built
    corrections,     \* the correction report
    stdout,          \* the texts printed to the primary channel
    stderr,          \* the lines printed to the secondary channel
    written,         \* the texts repair_and_write wrote to filepath
    calls,           \* the calls of json.loads and heuristic_repair made so far
    exit_code,       \* the exit status, -1 while the script runs
    pc,              \* the position in the script
    has_pandas,      \* HAS_PANDAS of analyze_with_cache.py
    files,           \* the data files on disk: content and modification time
    cache_file,      \* what CACHE_FILE holds on disk
    proc,            \* each analyze_data process: its position and its locals
    analysed         \* per path, the content its last completed analysis read

\* the state of validate_and_fix_json.py and repair_json.py
json_vars == <<script, arg_input, schema_file, input_json_str, schema, data, repaired_str,
          ordered_data, corrections, stdout, stderr, written, calls, exit_code, pc>>

\* the state of analyze_with_cache.py
cache_vars == <<has_pandas, files, cache_file, proc, analysed>>

vars == <<json_vars, cache_vars>>

\* the window of repair_and_write's SNIPPET on each side of the failure offset
SnippetWidth == 20

\* a schema file: kind is "missing" (no such path), "invalid" (not JSON) or
\* "json"; top is the type of the JSON value it holds; fields is "absent",
\* "null" or "list"; entries are the elements of the fields list
SchemaFile(kind, top, fields, entries) ==
    [kind |-> kind, top |-> top, fields |-> fields, entries |-> entries]

NoSchema == SchemaFile("missing", "", "absent", <<>>)

\* a line on stderr: what it says (tag), the parser or exception message it
\* quotes, the correction it reports, and the location it prints: empty, or
\* one record [lineno, colno, snippet]
Line(tag, msg) ==
    [tag |-> tag, msg |-> msg, name |-> <<>>, value |-> None, dtype |-> "", loc |-> <<>>]

CorrectionLine(c) ==
    [tag |-> c.kind, msg |-> "", name |-> c.name, value |-> c.value,
     dtype |-> c.dtype, loc |-> <<>>]

\* content_str[max(0, pos - 20) : pos + 20]
Snippet(content_str, pos) ==
    Slice(content_str,
          (IF pos - SnippetWidth > 0 THEN pos - SnippetWidth ELSE 0) + 1,
          IF pos + SnippetWidth < Len(content_str) THEN pos + SnippetWidth
          ELSE Len(content_str))

\* JSON_ERROR / LOCATION / SNIPPET of repair_and_write
LocatedLine(content_str, err) ==
    [tag |-> "JSON_ERROR", msg |-> err.msg, name |-> <<>>, value |-> None, dtype |-> "",
     loc |-> <<[lineno  |-> lineno(content_str, err.pos),
                colno   |-> colno(content_str, err.pos),
                snippet |-> Snippet(content_str, err.pos)]>>]

\* a call of fn on the text arg, and whether it returned (ok) or raised
Call(fn, arg, ok) == [fn |-> fn, arg |-> arg, ok |-> ok]

\* sys.exit(code), or the interpreter ending the script
Exit(code) == exit_code' = code /\ pc' = "exit"

\* an exception no handler catches: the traceback goes to stderr, status 1
Uncaught(exc) == stderr' = Append(stderr, Line("Traceback", exc)) /\ Exit(1)

\* lines 95-104
LoadSchema ==
    /\ script = "validate_and_fix" /\ pc = "load_schema"
    /\ UNCHANGED cache_vars
    /\ IF schema_file.kind = "missing"
       THEN /\ stderr' = Append(stderr, Line("CRITICAL ERROR", "Schema file not found"))
            /\ Exit(1)
            /\ UNCHANGED schema
       ELSE IF schema_file.kind = "invalid"
       THEN /\ stderr' = Append(stderr, Line("CRITICAL ERROR", "Schema file is invalid JSON"))
            /\ Exit(1)
            /\ UNCHANGED schema
       ELSE /\ schema' = schema_file
            /\ pc' = "normalize"
            /\ UNCHANGED <<stderr, exit_code>>
    /\ UNCHANGED <<script, arg_input, schema_file, input_json_str, data, repaired_str,
                   ordered_data, corrections, stdout, written, calls>>

\* not input_json_str or input_json_str.strip() == "None"
IsEmptyInput(text) == text = <<>> \/ Strip(text) = <<"N", "o", "n", "e">>

\* lines 109-113
NormalizeInput ==
    /\ script = "validate_and_fix" /\ pc = "normalize"
    /\ UNCHANGED cache_vars
    /\ input_json_str' = IF IsEmptyInput(input_json_str) THEN <<"{", "}">>
                         ELSE input_json_str
    /\ pc' = "parse"
    /\ UNCHANGED <<script, arg_input, schema_file, schema, data, repaired_str, ordered_data,
                   corrections, stdout, stderr, written, calls, exit_code>>

\* lines 115-120: attempt 1
ParseOriginal ==
    /\ script = "validate_and_fix" /\ pc = "parse"
    /\ UNCHANGED cache_vars
    /\ LET r == loads(input_json_str)
       IN  /\ calls' = Append(calls, Call("json.loads", input_json_str, r.ok))
           /\ IF r.ok
              THEN /\ data' = r.val
                   /\ pc' = "enforce"
                   /\ UNCHANGED stderr
              ELSE /\ stderr' = Append(stderr, Line("WARNING", "Invalid JSON detected"))
                   /\ pc' = "repair"
                   /\ UNCHANGED data
    /\ UNCHANGED <<script, arg_input, schema_file, input_json_str, schema, repaired_str,
                   ordered_data, corrections, stdout, written, exit_code>>

\* line 121
Repair ==
    /\ script = "validate_and_fix" /\ pc = "repair"
    /\ UNCHANGED cache_vars
    /\ repaired_str' = heuristic_repair(input_json_str)
    /\ calls' = Append(calls, Call("heuristic_repair", input_json_str, TRUE))
    /\ pc' = "reparse"
    /\ UNCHANGED <<script, arg_input, schema_file, input_json_str, schema, data, ordered_data,
                   corrections, stdout, stderr, written, exit_code>>

\* attempt 2 as a loop would make it: a failed parse of the repaired text
\* feeds the repaired text to another repair pass
ParseRepairedRetrying ==
    /\ script = "validate_and_fix" /\ pc = "reparse"
    /\ UNCHANGED cache_vars
    /\ LET r == loads(repaired_str)
       IN  /\ calls' = Append(calls, Call("json.loads", repaired_str, r.ok))
           /\ IF r.ok
              THEN /\ data' = r.val
                   /\ stderr' = Append(stderr, Line("SUCCESS", "JSON repaired automatically"))
                   /\ pc' = "enforce"
                   /\ UNCHANGED input_json_str
              ELSE /\ stderr' = Append(stderr, Line("WARNING", "Invalid JSON detected"))
                   /\ input_json_str' = repaired_str
                   /\ pc' = "repair"
                   /\ UNCHANGED data
    /\ UNCHANGED <<script, arg_input, schema_file, schema, repaired_str,
                   ordered_data, corrections, stdout, written, exit_code>>

\* lines 122-129: attempt 2
ParseRepaired ==
    /\ script = "validate_and_fix" /\ pc = "reparse"
    /\ UNCHANGED cache_vars
    /\ LET r == loads(repaired_str)
       IN  /\ calls' = Append(calls, Call("json.loads", repaired_str, r.ok))
           /\ IF r.ok
              THEN /\ data' = r.val
                   /\ stderr' = Append(stderr, Line("SUCCESS", "JSON repaired automatically"))
                   /\ pc' = "enforce"
                   /\ UNCHANGED exit_code
              ELSE /\ stderr' = stderr \o <<Line("SYNTAX ERROR", "Could not repair JSON"),
                                            Line("DETAILS", r.msg)>>
                   /\ Exit(1)
                   /\ UNCHANGED data
    /\ UNCHANGED <<script, arg_input, schema_file, input_json_str, schema, repaired_str,
                   ordered_data, corrections, stdout, written>>

\* lines 131-165: schema.get('fields', []) and the loop over it
EnforcerLoop ==
    /\ script = "validate_and_fix" /\ pc = "enforce"
    /\ UNCHANGED cache_vars
    /\ LET fields == IF schema.fields = "absent" THEN <<>> ELSE schema.entries
           st     == EnforceFrom(LoopState(JDict(<<>>), <<>>, ""), data, fields, 1)
       IN  IF schema.top # "dict" THEN
                /\ Uncaught("AttributeError")
                /\ UNCHANGED <<ordered_data, corrections>>
           ELSE IF schema.fields = "null" THEN
                /\ Uncaught("TypeError")
                /\ UNCHANGED <<ordered_data, corrections>>
           ELSE /\ ordered_data' = st.ordered_data
                /\ corrections' = st.corrections
                /\ IF st.exc # "" THEN Uncaught(st.exc)
                   ELSE pc' = "pass_through" /\ UNCHANGED <<stderr, exit_code>>
    /\ UNCHANGED <<script, arg_input, schema_file, input_json_str, schema, data,
                   repaired_str, stdout, written, calls>>

\* lines 170-172
PassThrough ==
    /\ script = "validate_and_fix" /\ pc = "pass_through"
    /\ UNCHANGED cache_vars
    /\ IF data.t # "dict"
       THEN Uncaught("AttributeError") /\ UNCHANGED ordered_data
       ELSE /\ ordered_data' = PassFrom(ordered_data, data, 1)
            /\ pc' = "output"
            /\ UNCHANGED <<stderr, exit_code>>
    /\ UNCHANGED <<script, arg_input, schema_file, input_json_str, schema, data,
                   repaired_str, corrections, stdout, written, calls>>

\* the output step with the report printed without file=sys.stderr
OutputReportOnStdout ==
    /\ script = "validate_and_fix" /\ pc = "output"
    /\ UNCHANGED cache_vars
    /\ stdout' = IF corrections = <<>> THEN Append(stdout, dumps(ordered_data))
                 ELSE stdout \o <<dumps(ordered_data),
                                  <<"[", "R", "E", "P", "O", "R", "T", "]">>>>
    /\ stderr' = stderr
    /\ Exit(0)
    /\ UNCHANGED <<script, arg_input, schema_file, input_json_str, schema, data,
                   repaired_str, ordered_data, corrections, written, calls>>

\* lines 177-182, and the script ending with status 0
Output ==
    /\ script = "validate_and_fix" /\ pc = "output"
    /\ UNCHANGED cache_vars
    /\ stdout' = Append(stdout, dumps(ordered_data))
    /\ stderr' = IF corrections = <<>> THEN stderr
                 ELSE stderr \o <<Line("[SCHEMA ENFORCER REPORT]", "")>>
                      \o [i \in 1..Len(corrections) |-> CorrectionLine(corrections[i])]
    /\ Exit(0)
    /\ UNCHANGED <<script, arg_input, schema_file, input_json_str, schema, data,
                   repaired_str, ordered_data, corrections, written, calls>>

\* repair_json.py, repair_and_write
RepairAndWrite ==
    /\ script = "repair_and_write" /\ pc = "start"
    /\ UNCHANGED cache_vars
    /\ LET r == loads(input_json_str)
       IN  /\ calls' = Append(calls, Call("json.loads", input_json_str, r.ok))
           /\ IF r.ok
              THEN /\ written' = Append(written, dumps(r.val))
                   /\ stdout' = Append(stdout, <<"S", "U", "C", "C", "E", "S", "S">>)
                   /\ Exit(0)
                   /\ UNCHANGED stderr
              ELSE /\ stderr' = Append(stderr, LocatedLine(input_json_str, r))
                   /\ Exit(1)
                   /\ UNCHANGED <<written, stdout>>
    /\ UNCHANGED <<script, arg_input, schema_file, input_json_str, schema, data,
                   repaired_str, ordered_data, corrections>>

\* ------------------------------------------------------------------------
\* Inputs
\* ------------------------------------------------------------------------

\* the longest schema and the longest document that are enumerated
MaxFields == 2

MaxKeys == 2

TypeTags == {"string", "integer", "float", "boolean", "list", "dict"}

\* the field names a schema declares, and a key no schema declares
FieldNames == {<<"p">>, <<"h">>}

DocKeys == FieldNames \cup {<<"x">>}

\* a default of the declared type
TypedDefault(dtype) ==
    CASE dtype = "string"  -> JStr(<<"d">>)
      [] dtype = "integer" -> JInt(8)
      [] dtype = "float"   -> JFloat(15, 1)
      [] dtype = "boolean" -> JBool(FALSE)
      [] dtype = "list"    -> JList(<<JInt(1)>>)
      [] dtype = "dict"    -> JDict(<<[k |-> <<"k">>, v |-> JInt(1)]>>)

\* entries that hold name, type and required, with or without a default
FullEntries ==
    { FieldEntry(IF d THEN {"name", "type", "required", "default"}
                 ELSE {"name", "type", "required"},
                 nm, ty, rq, IF d THEN TypedDefault(ty) ELSE None) :
        nm \in FieldNames, ty \in TypeTags, rq \in BOOLEAN, d \in BOOLEAN }

\* the values a document holds under a declared name
DocValues ==
    { JInt(7), JBool(TRUE), JFloat(37, 1), JFloat(8, 0), Inf, NaN,
      JStr(<<"8">>), JStr(<<"a">>), None, JList(<<>>), JDict(<<>>) }

\* the values a document holds under the other keys
OtherValues == { JInt(7), JStr(<<"8">>) }

DocEntries ==
    { [k |-> <<"p">>, v |-> v] : v \in DocValues }
    \cup { [k |-> key, v |-> v] : key \in DocKeys \ {<<"p">>}, v \in OtherValues }

\* the sequences over S of length at most n
SeqsUpTo(S, n) == UNION { [1..k -> S] : k \in 0..n }

\* no two elements of seq are equal
Distinct(seq) ==
    \A i, j \in 1..Len(seq) : i # j => seq[i] # seq[j]

\* the names of a sequence of schema entries
NameOf(entries) == [i \in 1..Len(entries) |-> entries[i].name]

\* the keys of a sequence of key/value pairs
KeyOf(pairs) == [i \in 1..Len(pairs) |-> pairs[i].k]

\* schemas of well-formed entries with unique names
WideSchemas ==
    { SchemaFile("json", "dict", "list", es) :
        es \in { q \in SeqsUpTo(FullEntries, MaxFields) : Distinct(NameOf(q)) } }

\* documents: mappings with unique keys
Docs == { JDict(ps) : ps \in { q \in SeqsUpTo(DocEntries, MaxKeys) : Distinct(KeyOf(q)) } }

\* ------------------------------------------------------------------------
\* Input texts
\* ------------------------------------------------------------------------

\* 
EmptyText == <<>>

\*   
BlankText == <<" ", " ">>

\* None
NoneText == <<"N", "o", "n", "e">>

\*  None 
PaddedNoneText == <<" ", "N", "o", "n", "e", " ">>

\* none
LowerNoneText == <<"n", "o", "n", "e">>

\* null
NullText == <<"n", "u", "l", "l">>

\*   hello
ProseText == <<" ", " ", "h", "e", "l", "l", "o">>

\* 5
NumberText == <<"5">>

\* ["p"]
ListText == <<"[", "\"", "p", "\"", "]">>

\* "p"
StringText == <<"\"", "p", "\"">>

\* (fence)json\n{"p": "8"}\n(fence)
FencedText == <<Backtick, Backtick, Backtick, "j", "s", "o", "n", "\n", "{", "\"", "p", "\"", ":", " ", "\"", "8", "\"", "}", "\n", Backtick, Backtick, Backtick>>

\* {"p": 7 "h": "a"}
MissingCommaText == <<"{", "\"", "p", "\"", ":", " ", "7", " ", "\"", "h", "\"", ":", " ", "\"", "a", "\"", "}">>

\* {"x": ["a""b"],}
UsageText == <<"{", "\"", "x", "\"", ":", " ", "[", "\"", "a", "\"", "\"", "b", "\"", "]", ",", "}">>

\*  {"p": 7} x
ExtraDataText == <<" ", "{", "\"", "p", "\"", ":", " ", "7", "}", " ", "x">>

\* \n {"p": }
NoValueText == <<"\n", " ", "{", "\"", "p", "\"", ":", " ", "}">>

\* {"p": Infinity}
InfinityText == <<"{", "\"", "p", "\"", ":", " ", "I", "n", "f", "i", "n", "i", "t", "y", "}">>

\* {"p": " 8 "}
PaddedIntText == <<"{", "\"", "p", "\"", ":", " ", "\"", " ", "8", " ", "\"", "}">>

\* {"p": -3.7, "h": "-8"}
NegativeText == <<"{", "\"", "p", "\"", ":", " ", "-", "3", ".", "7", ",", " ", "\"", "h", "\"", ":", " ", "\"", "-", "8", "\"", "}">>

FixedTexts ==
    { EmptyText,
      BlankText,
      NoneText,
      PaddedNoneText,
      LowerNoneText,
      NullText,
      ProseText,
      NumberText,
      ListText,
      StringText,
      FencedText,
      MissingCommaText,
      UsageText,
      ExtraDataText,
      NoValueText,
      InfinityText,
      PaddedIntText,
      NegativeText }

\* text without its last character: a document cut short of its closer
Truncated(text) == SubSeq(text, 1, Len(text) - 1)

\* text with a comma put before its last character
TrailingComma(text) ==
    SubSeq(text, 1, Len(text) - 1) \o <<",">> \o <<text[Len(text)]>>

\* what a producer may send for a document: its serialization, whole, cut
\* short, or with one comma too many
DocTexts ==
    UNION { { dumps(d), Truncated(dumps(d)), TrailingComma(dumps(d)) } : d \in Docs }

InputTexts == FixedTexts \cup DocTexts

\* the schema entries of the end-to-end runs: some leave keys out
SparseEntries ==
    { FieldEntry({"name", "type", "required", "default"}, <<"p">>, "integer", TRUE, JInt(8)),
      FieldEntry({"name", "type"}, <<"p">>, "integer", FALSE, None),
      FieldEntry({"name"}, <<"h">>, "", FALSE, None),
      FieldEntry({"name", "required"}, <<"h">>, "", TRUE, None),
      FieldEntry({"type", "required"}, <<>>, "string", TRUE, None) }

\* what schema_path may hold
SchemaFiles ==
    { NoSchema,
      SchemaFile("invalid", "", "absent", <<>>),
      SchemaFile("json", "list", "absent", <<>>),
      SchemaFile("json", "dict", "absent", <<>>),
      SchemaFile("json", "dict", "null", <<>>) }
    \cup { SchemaFile("json", "dict", "list", es) :
             es \in { q \in SeqsUpTo(SparseEntries, MaxFields) : Distinct(NameOf(q)) } }

\* ------------------------------------------------------------------------
\* analyze_with_cache.py: the file-profile cache
\* ------------------------------------------------------------------------

\* how many times a data file is modified
MaxEdits == 2

\* the analyze_data processes
Procs == {1, 2}

\* the paths given as --filepath, and a path that only the cache knows
CsvPath == [stem |-> "a", ext |-> "csv"]

TextPath == [stem |-> "b", ext |-> "txt"]

OtherPath == [stem |-> "c", ext |-> "txt"]

Paths == {CsvPath, TextPath}

CachePaths == Paths \cup {OtherPath}

\* what a data file may hold
Contents == {"one_row", "two_rows", "garbled"}

\* a file on disk; mtime counts its modifications
File(content, mtime) == [exists |-> TRUE, content |-> content, mtime |-> mtime]

\* a path with no file, after mtime modifications
NoFile(mtime) == [exists |-> FALSE, content |-> "", mtime |-> mtime]

\* filepath.endswith('.csv')
endswith_csv(filepath) == filepath.ext = "csv"

\* os.path.getsize
getsize(content) ==
    CASE content = "one_row"  -> 8
      [] content = "two_rows" -> 12
      [] OTHER                -> 5

\* df.shape[0] of the parsed file
Rows(content) == IF content = "one_row" THEN 1 ELSE 2

\* hasher.hexdigest() of the file's bytes: one digest per content, MD5 being
\* taken as free of collisions over the contents enumerated
get_file_hash(content) == <<"md5", content>>

\* the empty stats dict
NoStats == [type |-> "", rows |-> 0]

\* profile_csv: (stats, summary)
profile_csv(content) ==
    IF ~has_pandas
    THEN [stats |-> NoStats, summary |-> <<"Pandas missing">>]
    ELSE IF content = "garbled"
    THEN [stats |-> NoStats, summary |-> <<"Error analyzing CSV structure">>]
    ELSE [stats   |-> [type |-> "csv", rows |-> Rows(content)],
          summary |-> <<"CSV", Rows(content)>>]

\* the summary of a file that is no CSV
GenericSummary(filepath, content) == <<"File", filepath.stem, getsize(content)>>

\* a cache entry; has_stats tells whether it holds the key 'stats'
Entry(hash, summary, stats, has_stats, analyzed_at) ==
    [hash |-> hash, summary |-> summary, stats |-> stats, has_stats |-> has_stats,
     analyzed_at |-> analyzed_at]

\* no entry under a key
NoEntry == Entry(<<>>, <<>>, NoStats, FALSE, -1)

\* cache = {}
EmptyCache == [path \in CachePaths |-> NoEntry]

\* CACHE_FILE on disk: kind is "absent", "invalid" (no JSON) or "json"
CacheFile(kind, entries) == [kind |-> kind, entries |-> entries]

\* a process: pc is "off" (never run), "idle" (not running), or a position
\* in analyze_data
Process(at, filepath) ==
    [pc |-> at, filepath |-> filepath, current_hash |-> <<>>, cache |-> EmptyCache,
     summary |-> <<>>, file_stats |-> NoStats, out |-> <<>>, wrote |-> FALSE,
     exit_code |-> -1]

\* process p is inside analyze_data
Running(p) == proc[p].pc \notin {"off", "idle"}

\* args.filepath: a process starts on a path while no other one runs
StartCall ==
    /\ \A q \in Procs : ~Running(q)
    /\ \E p \in Procs, filepath \in Paths :
          /\ proc[p].pc = "idle"
          /\ proc' = [proc EXCEPT ![p] = Process("hash", filepath)]
    /\ UNCHANGED <<json_vars, has_pandas, files, cache_file, analysed>>

\* line 140 and get_file_hash
GetFileHash ==
    /\ \E p \in Procs :
          /\ proc[p].pc = "hash"
          /\ LET file == files[proc[p].filepath]
             IN  proc' = [proc EXCEPT ![p] =
                    IF file.exists
                    THEN [@ EXCEPT !.current_hash = get_file_hash(file.content),
                                   !.pc = "read_cache"]
                    ELSE [@ EXCEPT !.out = Append(@, "ERROR: File not found"),
                                   !.exit_code = 1, !.pc = "done"]]
    /\ UNCHANGED <<json_vars, has_pandas, files, cache_file, analysed>>

\* lines 141-148
ReadCache ==
    /\ \E p \in Procs :
          /\ proc[p].pc = "read_cache"
          /\ proc' = [proc EXCEPT ![p] =
                [@ EXCEPT !.cache = IF cache_file.kind = "json" THEN cache_file.entries
                                    ELSE EmptyCache,
                          !.pc = "decide"]]
    /\ UNCHANGED <<json_vars, has_pandas, files, cache_file, analysed>>

\* what a cache hit prints
RecallLines(entry) ==
    <<"MEMORY RECALL", "SUMMARY">>
    \o (IF entry.has_stats THEN <<"[DETAILED PROFILE RECALLED]">> ELSE <<>>)

\* lines 155-167 with is_cached taken from the presence of the entry alone
DecideIgnoringHash ==
    /\ \E p \in Procs :
          /\ proc[p].pc = "decide"
          /\ LET filepath  == proc[p].filepath
                 entry     == proc[p].cache[filepath]
                 is_cached == entry # NoEntry
                 has_stats == entry # NoEntry /\ entry.has_stats
             IN  proc' = [proc EXCEPT ![p] =
                    IF is_cached /\ (has_stats \/ ~endswith_csv(filepath))
                    THEN [@ EXCEPT !.out = @ \o RecallLines(entry),
                                   !.exit_code = 0, !.pc = "done"]
                    ELSE [@ EXCEPT !.out = Append(@, "ANALYZING"),
                                   !.pc = "analyse"]]
    /\ UNCHANGED <<json_vars, has_pandas, files, cache_file, analysed>>

\* lines 155-172
Decide ==
    /\ \E p \in Procs :
          /\ proc[p].pc = "decide"
          /\ LET filepath  == proc[p].filepath
                 entry     == proc[p].cache[filepath]
                 is_cached == entry # NoEntry /\ entry.hash = proc[p].current_hash
                 has_stats == entry # NoEntry /\ entry.has_stats
             IN  proc' = [proc EXCEPT ![p] =
                    IF is_cached /\ (has_stats \/ ~endswith_csv(filepath))
                    THEN [@ EXCEPT !.out = @ \o RecallLines(entry),
                                   !.exit_code = 0, !.pc = "done"]
                    ELSE [@ EXCEPT !.out = Append(@, "ANALYZING"),
                                   !.pc = "analyse"]]
    /\ UNCHANGED <<json_vars, has_pandas, files, cache_file, analysed>>

\* lines 174-182; os.path.getsize raises when the file is gone
Analyse ==
    /\ \E p \in Procs :
          /\ proc[p].pc = "analyse"
          /\ LET filepath == proc[p].filepath
                 file     == files[filepath]
                 profile  == profile_csv(file.content)
             IN  proc' = [proc EXCEPT ![p] =
                    IF ~file.exists
                    THEN [@ EXCEPT !.out = Append(@, "Traceback"),
                                   !.exit_code = 1, !.pc = "done"]
                    ELSE IF endswith_csv(filepath)
                    THEN [@ EXCEPT !.file_stats = profile.stats,
                                   !.summary = profile.summary,
                                   !.pc = "write"]
                    ELSE [@ EXCEPT !.summary = GenericSummary(filepath, file.content),
                                   !.pc = "write"]]
    /\ UNCHANGED <<json_vars, has_pandas, files, cache_file, analysed>>

\* the last lines a fresh analysis prints
CompleteLines(file_stats) ==
    <<"ANALYSIS COMPLETE">> \o (IF file_stats # NoStats THEN <<"stats">> ELSE <<>>)

\* lines 189-201, the cache file written in one step; os.path.getmtime
\* raises when the file is gone
WriteCache ==
    /\ \E p \in Procs :
          /\ proc[p].pc = "write"
          /\ LET filepath == proc[p].filepath
                 file     == files[filepath]
                 cache    == [proc[p].cache EXCEPT ![filepath] =
                                 Entry(proc[p].current_hash, proc[p].summary,
                                       proc[p].file_stats, TRUE, file.mtime)]
             IN  IF ~file.exists
                 THEN /\ proc' = [proc EXCEPT ![p] =
                            [@ EXCEPT !.out = Append(@, "Traceback"),
                                      !.exit_code = 1, !.pc = "done"]]
                      /\ UNCHANGED cache_file
                 ELSE /\ cache_file' = CacheFile("json", cache)
                      /\ proc' = [proc EXCEPT ![p] =
                            [@ EXCEPT !.cache = cache,
                                      !.wrote = TRUE,
                                      !.out = @ \o CompleteLines(proc[p].file_stats),
                                      !.exit_code = 0, !.pc = "done"]]
    /\ UNCHANGED <<json_vars, has_pandas, files, analysed>>

\* the process ends; a call that wrote its entry completed an analysis of
\* the content it read
ProcessExit ==
    /\ \E p \in Procs :
          /\ proc[p].pc = "done"
          /\ proc' = [proc EXCEPT ![p].pc = "idle"]
          /\ analysed' = IF proc[p].wrote
                         THEN [analysed EXCEPT ![proc[p].filepath] =
                                  files[proc[p].filepath].content]
                         ELSE analysed
    /\ UNCHANGED <<json_vars, has_pandas, files, cache_file>>

\* another tool rewrites, touches, removes or recreates a data file between
\* two calls
ModifyFile ==
    /\ \A q \in Procs : ~Running(q)
    /\ \E path \in Paths, content \in Contents, exists \in BOOLEAN :
          /\ files[path].mtime < MaxEdits
          /\ files' = [files EXCEPT ![path] =
                IF exists THEN File(content, files[path].mtime + 1)
                ELSE NoFile(files[path].mtime + 1)]
    /\ UNCHANGED <<json_vars, has_pandas, cache_file, proc, analysed>>

\* no analyze_data process exists
CacheUnused ==
    /\ has_pandas = FALSE
    /\ files = [path \in Paths |-> NoFile(0)]
    /\ cache_file = CacheFile("absent", EmptyCache)
    /\ proc = [p \in Procs |-> Process("off", CsvPath)]
    /\ analysed = [path \in Paths |-> "none"]

\* ------------------------------------------------------------------------
\* Specifications
\* ------------------------------------------------------------------------

\* what both scripts start from
Fresh ==
    /\ CacheUnused
    /\ schema = NoSchema
    /\ data = JDict(<<>>)
    /\ repaired_str = <<>>
    /\ ordered_data = JDict(<<>>)
    /\ corrections = <<>>
    /\ stdout = <<>>
    /\ stderr = <<>>
    /\ written = <<>>
    /\ exit_code = -1

\* a run of either script from its command line
Init ==
    /\ Fresh
    /\ calls = <<>>
    /\ arg_input \in InputTexts
    /\ input_json_str = arg_input
    /\ \/ script = "validate_and_fix" /\ pc = "load_schema" /\ schema_file \in SchemaFiles
       \/ script = "repair_and_write" /\ pc = "start" /\ schema_file = NoSchema

Next ==
    \/ LoadSchema
    \/ NormalizeInput
    \/ ParseOriginal
    \/ Repair
    \/ ParseRepaired
    \/ EnforcerLoop
    \/ PassThrough
    \/ Output
    \/ RepairAndWrite

Spec == Init /\ [][Next]_vars

\* validate_and_fix at the enforcer loop, the schema loaded and the document
\* parsed at the first attempt
InitEnforce ==
    /\ CacheUnused
    /\ script = "validate_and_fix"
    /\ schema_file \in WideSchemas
    /\ schema = schema_file
    /\ data \in Docs
    /\ arg_input = dumps(data)
    /\ input_json_str = arg_input
    /\ repaired_str = <<>>
    /\ ordered_data = JDict(<<>>)
    /\ corrections = <<>>
    /\ stdout = <<>>
    /\ stderr = <<>>
    /\ written = <<>>
    /\ calls = <<Call("json.loads", input_json_str, TRUE)>>
    /\ exit_code = -1
    /\ pc = "enforce"

NextEnforce == EnforcerLoop \/ PassThrough \/ Output

SpecEnforce == InitEnforce /\ [][NextEnforce]_vars

\* ------------------------------------------------------------------------
\* The parse, repair, parse again path on its own
\* ------------------------------------------------------------------------

\* the longest run of closers cut from the end of a document
MaxCut == 2

\* the contents of the string literals a producer writes side by side
Words == { <<>>, <<"a">>, <<"b">>, <<"a", "1">> }

\* what it leaves between them
Gaps == { <<>>, <<" ">> }

\* [ "s1" gap "s2" ]: a list of two strings with the separator left out
AdjacentList(s1, gap, s2) ==
    <<"[", "\"">> \o s1 \o <<"\"">> \o gap \o <<"\"">> \o s2 \o <<"\"", "]">>

AdjacentTexts == { AdjacentList(s1, gap, s2) : s1 \in Words, gap \in Gaps, s2 \in Words }

\* {"a": [1]}
ObjectWithListText == <<"{", "\"", "a", "\"", ":", " ", "[", "1", "]", "}">>

\* [{"a": 1}]
ListWithObjectText == <<"[", "{", "\"", "a", "\"", ":", " ", "1", "}", "]">>

\* [[1, 2]]
ListInListText == <<"[", "[", "1", ",", " ", "2", "]", "]">>

\* {"a": {"b": 1}}
ObjectInObjectText == <<"{", "\"", "a", "\"", ":", " ", "{", "\"", "b", "\"", ":", " ", "1", "}", "}">>

\* {"a": 1}
FlatObjectText == <<"{", "\"", "a", "\"", ":", " ", "1", "}">>

NestedTexts ==
    { ObjectWithListText, ListWithObjectText, ListInListText, ObjectInObjectText,
      FlatObjectText }

\* documents cut short of their last closers
UnclosedTexts ==
    { SubSeq(t, 1, Len(t) - k) : t \in NestedTexts, k \in 1..MaxCut }

\* documents with one comma too many before the last closer
TrailingCommaTexts == { TrailingComma(dumps(d)) : d \in Docs }

RepairTexts == AdjacentTexts \cup UnclosedTexts \cup TrailingCommaTexts \cup NestedTexts

\* validate_and_fix given a schema without fields
InitRepair ==
    /\ Fresh
    /\ script = "validate_and_fix"
    /\ schema_file = SchemaFile("json", "dict", "list", <<>>)
    /\ calls = <<>>
    /\ arg_input \in RepairTexts
    /\ input_json_str = arg_input
    /\ pc = "load_schema"

NextRepair == LoadSchema \/ NormalizeInput \/ ParseOriginal \/ Repair \/ ParseRepaired

SpecRepair == InitRepair /\ [][NextRepair]_vars

\* ------------------------------------------------------------------------
\* analyze_with_cache.py: its runs
\* ------------------------------------------------------------------------

\* neither JSON script runs
JsonUnused ==
    /\ script = "analyze_data"
    /\ arg_input = <<>>
    /\ schema_file = NoSchema
    /\ input_json_str = <<>>
    /\ schema = NoSchema
    /\ data = JDict(<<>>)
    /\ repaired_str = <<>>
    /\ ordered_data = JDict(<<>>)
    /\ corrections = <<>>
    /\ stdout = <<>>
    /\ stderr = <<>>
    /\ written = <<>>
    /\ calls = <<>>
    /\ exit_code = -1
    /\ pc = "off"

\* a cache written earlier: an entry for a path no process is given and,
\* for the CSV file, an entry of the schema without 'stats' whose hash is
\* that of the file
EarlierCache(disk) ==
    [EmptyCache EXCEPT
        ![OtherPath] = Entry(get_file_hash("one_row"), <<"File", "c", 8>>, NoStats, TRUE, 0),
        ![CsvPath]   = Entry(get_file_hash(disk[CsvPath].content), <<"CSV">>, NoStats,
                             FALSE, 0)]

\* what CACHE_FILE may hold before the first call
CacheFiles(disk) ==
    { CacheFile("absent", EmptyCache),
      CacheFile("invalid", EmptyCache),
      CacheFile("json", EarlierCache(disk)) }

\* the data files before the first call
Disks == [Paths -> { File(content, 0) : content \in Contents }]

\* one process at a time: calls and file modifications follow one another
InitCache ==
    /\ JsonUnused
    /\ has_pandas \in BOOLEAN
    /\ files \in Disks
    /\ cache_file \in CacheFiles(files)
    /\ proc = [p \in Procs |-> Process(IF p = 1 THEN "idle" ELSE "off", CsvPath)]
    /\ analysed = [path \in Paths |-> "none"]

NextCache ==
    \/ StartCall
    \/ GetFileHash
    \/ ReadCache
    \/ Decide
    \/ Analyse
    \/ WriteCache
    \/ ProcessExit
    \/ ModifyFile

SpecCache == InitCache /\ [][NextCache]_vars

\* two processes started together on two different files, sharing
\* CACHE_FILE
InitShared ==
    /\ JsonUnused
    /\ has_pandas \in BOOLEAN
    /\ files \in Disks
    /\ cache_file \in CacheFiles(files)
    /\ proc = [p \in Procs |-> Process("hash", IF p = 1 THEN CsvPath ELSE TextPath)]
    /\ analysed = [path \in Paths |-> "none"]

NextShared ==
    \/ GetFileHash
    \/ ReadCache
    \/ Decide
    \/ Analyse
    \/ WriteCache
    \/ ProcessExit

SpecShared == InitShared /\ [][NextShared]_vars

\* ------------------------------------------------------------------------
\* Claims
\* ------------------------------------------------------------------------

\* the run could not parse the text even after the repair pass
Unrepairable == Len(calls) = 3 /\ ~calls[3].ok

HasLine(tag) == \E i \in 1..Len(stderr) : stderr[i].tag = tag

\* C1: in every run of validate_and_fix the calls are, in this order, a
\* strict parse of the normalized input, then (only when that parse failed)
\* one heuristic repair of that input, then one strict parse of the repaired
\* text; when that second parse fails the run has ended with exit code 1 and
\* nothing more is parsed or repaired.  When the first parse succeeds there
\* is no repair and no repair warning.
C1_TwoAttemptPolicy ==
    script = "validate_and_fix" =>
        /\ Len(calls) <= 3
        /\ Len(calls) >= 1 =>
              calls[1] = Call("json.loads", input_json_str, calls[1].ok)
        /\ Len(calls) >= 2 =>
              /\ ~calls[1].ok
              /\ calls[2] = Call("heuristic_repair", input_json_str, TRUE)
              /\ HasLine("WARNING")
        /\ Len(calls) >= 3 =>
              calls[3] = Call("json.loads", repaired_str, calls[3].ok)
        /\ Unrepairable => pc = "exit" /\ exit_code = 1
        /\ (Len(calls) >= 1 /\ calls[1].ok) =>
              /\ Len(calls) = 1
              /\ ~HasLine("WARNING") /\ ~HasLine("SUCCESS") /\ ~HasLine("SYNTAX ERROR")

\* C1 witness: a run that parsed, repaired, parsed again and gave up
C1_Witness ==
    /\ script = "validate_and_fix" /\ pc = "exit" /\ exit_code = 1
    /\ Unrepairable
    /\ repaired_str # input_json_str

\* C2: stdout of validate_and_fix holds nothing until the run exits 0, and
\* then exactly the serialized document, which parses back as data; every
\* fatal path (schema missing, schema malformed, text not repairable) ends
\* with a non-zero exit code, an empty stdout and its diagnostic on stderr.
C2_PrimaryChannelIsPureData ==
    script = "validate_and_fix" =>
        /\ stdout \in { <<>>, <<dumps(ordered_data)>> }
        /\ stdout # <<>> <=> (pc = "exit" /\ exit_code = 0)
        /\ \A i \in 1..Len(stdout) : loads(stdout[i]).ok
        /\ pc = "exit" => exit_code \in {0, 1}
        /\ (pc = "exit" /\ (schema_file.kind # "json" \/ Unrepairable)) =>
              exit_code = 1 /\ stdout = <<>> /\ stderr # <<>>

\* C2 witness: a run that printed a repair warning, a repair note and a
\* correction report, and exited 0
C2_Witness ==
    /\ script = "validate_and_fix" /\ pc = "exit" /\ exit_code = 0
    /\ HasLine("WARNING") /\ HasLine("SUCCESS") /\ HasLine("[SCHEMA ENFORCER REPORT]")
    /\ stdout = <<dumps(ordered_data)>>

\* the run printed a document and ended with status 0
Emitted == script = "validate_and_fix" /\ pc = "exit" /\ exit_code = 0 /\ Len(stdout) = 1

\* the document a reader of stdout parses
OutputDocument == loads(stdout[1]).val

\* the report lines on stderr with the given tag about the given field
RecordsFor(tag, name) ==
    { j \in 1..Len(stderr) : stderr[j].tag = tag /\ stderr[j].name = name }

\* the report lines on stderr about the given field
RecordsAbout(name) ==
    { j \in 1..Len(stderr) : stderr[j].name = name }

\* the safe empty value of each declared type
ExpectedEmpty(dtype) ==
    CASE dtype = "string"  -> JStr(<<>>)
      [] dtype = "integer" -> JInt(0)
      [] dtype = "float"   -> JFloat(0, 0)
      [] dtype = "boolean" -> JBool(FALSE)
      [] dtype = "list"    -> JList(<<>>)
      [] dtype = "dict"    -> JDict(<<>>)

\* C3: when a document was emitted, every schema field absent from the
\* parsed document is, if required or holding a default, in the output with
\* the default when there is one and else the safe empty value of its type,
\* with exactly one MISSING FIELD line reported for it; and, if optional
\* without default, not in the output and with no line reported for it.
C3_MissingFieldInjection ==
    Emitted =>
        \A i \in 1..Len(schema.entries) :
            LET field == schema.entries[i]
                name  == field.name
            IN  ~HasKey(data, name) =>
                    IF field.required \/ "default" \in field.keys
                    THEN /\ HasKey(OutputDocument, name)
                         /\ GetItem(OutputDocument, name) =
                               IF "default" \in field.keys THEN field.default
                               ELSE ExpectedEmpty(field.type)
                         /\ Cardinality(RecordsFor("MISSING FIELD", name)) = 1
                         /\ Cardinality(RecordsAbout(name)) = 1
                    ELSE /\ ~HasKey(OutputDocument, name)
                         /\ RecordsAbout(name) = {}

\* C3 witness: a document was emitted for a schema whose first field is
\* optional with a default and whose second field is required without
\* one, both absent from the parsed document
C3_Witness ==
    /\ Emitted
    /\ Len(schema.entries) = 2
    /\ ~schema.entries[1].required /\ "default" \in schema.entries[1].keys
    /\ schema.entries[2].required /\ "default" \notin schema.entries[2].keys
    /\ schema.entries[2].type = "list"
    /\ \A i \in 1..2 : ~HasKey(data, schema.entries[i].name)
    /\ Len(data.e) = 1
    /\ Len(OutputDocument.e) = 3

\* the integer that a value denotes exactly, when it denotes one
ExactInteger(v) ==
    CASE v.t = "str"   -> IntOfStr(v.s)
      [] v.t = "float" -> IF v.s = <<>> /\ v.x = 0 THEN Converted(v.n)
                          ELSE Raised("inexact")
      [] OTHER         -> Raised("inexact")

\* C4: when a document was emitted, every schema field of type integer
\* present in the parsed document with a value other than a boolean is in
\* the output: unchanged and unreported when the value is an integer; as
\* the integer it denotes exactly, with one TYPE FIX line, when it denotes
\* one (the text "8", the number 8.0); as the default, else 0, with one TYPE
\* ERROR line, when it denotes none (the text "a", 3.7, a list, a mapping,
\* null).
C4_IntegerCoercionIsLossless ==
    Emitted =>
        \A i \in 1..Len(schema.entries) :
            LET field    == schema.entries[i]
                name     == field.name
                val      == GetItem(data, name)
                out      == GetItem(OutputDocument, name)
                exact    == ExactInteger(val)
                fallback == IF "default" \in field.keys THEN field.default ELSE JInt(0)
            IN  (field.type = "integer" /\ HasKey(data, name) /\ val.t # "bool") =>
                    /\ HasKey(OutputDocument, name)
                    /\ IF val.t = "int"
                       THEN out = val /\ RecordsAbout(name) = {}
                       ELSE IF exact.exc = ""
                       THEN /\ out = JInt(exact.n)
                            /\ Cardinality(RecordsFor("TYPE FIX", name)) = 1
                            /\ Cardinality(RecordsAbout(name)) = 1
                       ELSE /\ out = fallback
                            /\ Cardinality(RecordsFor("TYPE ERROR", name)) = 1
                            /\ Cardinality(RecordsAbout(name)) = 1

\* the keys of seq, in order, that are in the set S
Restrict(seq, S) ==
    LET Kept(k) == k \in S
    IN  SelectSeq(seq, Kept)

\* the names a schema declares
Declared == { schema.entries[i].name : i \in 1..Len(schema.entries) }

\* the declared names that enforcement resolves: present in the document,
\* or injected
Resolved ==
    { schema.entries[i].name : i \in
        { j \in 1..Len(schema.entries) :
            \/ HasKey(data, schema.entries[j].name)
            \/ schema.entries[j].required
            \/ "default" \in schema.entries[j].keys } }

\* C5: when a document was emitted, its keys are the resolved schema
\* fields in schema order followed by the keys of the parsed document that
\* the schema does not declare, in their original order; each undeclared
\* key holds its original value and no line is reported about it.
C5_OutputOrderAndPassThrough ==
    Emitted =>
        /\ Keys(OutputDocument) =
              Restrict(NameOf(schema.entries), Resolved)
              \o Restrict(Keys(data), { k \in DocKeys : k \notin Declared })
        /\ \A i \in 1..Len(data.e) :
              data.e[i].k \notin Declared =>
                  /\ HasKey(OutputDocument, data.e[i].k)
                  /\ GetItem(OutputDocument, data.e[i].k) = data.e[i].v
                  /\ RecordsAbout(data.e[i].k) = {}

\* C5 witness: a document was emitted whose two undeclared keys precede,
\* in the parsed document, nothing the schema declares, while the schema
\* declares one injected field; the output lists the field first
C5_Witness ==
    /\ Emitted
    /\ Len(schema.entries) = 1
    /\ ~HasKey(data, schema.entries[1].name)
    /\ Len(data.e) = 2
    /\ Keys(OutputDocument) = <<schema.entries[1].name>> \o Keys(data)

\* the JSON type a type tag names
TypeMatches(v, dtype) ==
    CASE dtype = "string"  -> v.t = "str"
      [] dtype = "integer" -> v.t = "int"
      [] dtype = "float"   -> v.t = "float"
      [] dtype = "boolean" -> v.t = "bool"
      [] dtype = "list"    -> v.t = "list"
      [] dtype = "dict"    -> v.t = "dict"

\* the document holds every required field and each declared field it
\* holds has the declared type
Conformant(entries, doc) ==
    \A i \in 1..Len(entries) :
        IF HasKey(doc, entries[i].name)
        THEN TypeMatches(GetItem(doc, entries[i].name), entries[i].type)
        ELSE ~entries[i].required

\* enforcement of the schema on the document read back from stdout
SecondLoop ==
    EnforceFrom(LoopState(JDict(<<>>), <<>>, ""), OutputDocument, schema.entries, 1)

SecondDocument == PassFrom(SecondLoop.ordered_data, OutputDocument, 1)

\* C6: when a document was emitted for a parsed document conformant to
\* the schema, enforcing the schema on the emitted document raises nothing,
\* records no correction and yields a document that serializes to the
\* same text.
C6_IdempotentOnConformant ==
    (Emitted /\ Conformant(schema.entries, data)) =>
        /\ loads(stdout[1]).ok
        /\ SecondLoop.exc = ""
        /\ SecondLoop.corrections = <<>>
        /\ SecondDocument = ordered_data
        /\ dumps(SecondDocument) = stdout[1]

\* C6 witness: a document was emitted for a conformant parsed document that
\* holds an integer field and lacks an optional field with a default, so the
\* first enforcement kept one value and injected another
C6_Witness ==
    /\ Emitted /\ Conformant(schema.entries, data)
    /\ Len(schema.entries) = 2
    /\ schema.entries[1].type = "integer" /\ HasKey(data, schema.entries[1].name)
    /\ ~HasKey(data, schema.entries[2].name) /\ "default" \in schema.entries[2].keys
    /\ corrections # <<>>
    /\ Len(data.e) = 2

\* --input is empty, blank, or a none/null marker
IsSentinel(text) ==
    Strip(text) \in { EmptyText, NoneText, LowerNoneText, NullText }

\* the schema file holds a mapping with a fields list whose entries all
\* hold a name
WellFormed(file) ==
    /\ file.kind = "json" /\ file.top = "dict" /\ file.fields = "list"
    /\ \A i \in 1..Len(file.entries) : "name" \in file.entries[i].keys

\* C7: a run of validate_and_fix whose --input is empty, blank or a
\* none/null marker parses nothing but the text {} and that successfully,
\* prints no repair warning and no syntax error, enforces the schema on the
\* empty mapping and, the schema being well formed, ends with exit code 0
\* and a document on stdout.
C7_SentinelInputIsEmptyDocument ==
    (script = "validate_and_fix" /\ IsSentinel(arg_input)) =>
        /\ \A i \in 1..Len(calls) :
              calls[i] = Call("json.loads", <<"{", "}">>, TRUE)
        /\ ~HasLine("WARNING") /\ ~HasLine("SYNTAX ERROR")
        /\ pc \in {"enforce", "pass_through", "output"} => data = JDict(<<>>)
        /\ (pc = "exit" /\ WellFormed(schema_file)) =>
              exit_code = 0 /\ Len(stdout) = 1 /\ data = JDict(<<>>)

\* C8: a run of validate_and_fix that could not parse the repaired text
\* has ended with exit code 1 and a line on stderr that gives the parser's
\* message with the line, the column and the snippet of at most 20
\* characters each side of the failure offset, all taken in the repaired
\* text.
C8_UnrepairableDiagnosticLocatesFailure ==
    (script = "validate_and_fix" /\ Unrepairable) =>
        /\ pc = "exit" /\ exit_code = 1
        /\ LET err == loads(repaired_str)
           IN  \E i \in 1..Len(stderr) :
                  /\ stderr[i].msg = err.msg
                  /\ stderr[i].loc =
                        <<[lineno  |-> lineno(repaired_str, err.pos),
                           colno   |-> colno(repaired_str, err.pos),
                           snippet |-> Snippet(repaired_str, err.pos)]>>

\* C9: a run of validate_and_fix whose schema path is missing, or holds
\* no JSON, or no mapping with a fields list, or a field entry without a
\* name, never leaves schema loading except to exit with a non-zero code:
\* it parses and repairs nothing, enforces nothing and prints no document.
C9_SchemaLoadingFailsFast ==
    (script = "validate_and_fix" /\ ~WellFormed(schema_file)) =>
        /\ pc \in {"load_schema", "exit"}
        /\ calls = <<>>
        /\ stdout = <<>>
        /\ pc = "exit" => exit_code # 0

\* the input text parsed, at the first or at the second attempt
Parsed ==
    /\ Len(calls) >= 1
    /\ calls[Len(calls)].fn = "json.loads" /\ calls[Len(calls)].ok

\* C10: a run of validate_and_fix with a well-formed schema whose input
\* parsed to a mapping ends, whatever the values the mapping holds, with
\* exit code 0, the document on stdout and no traceback on stderr.
C10_EnforcementNeverAborts ==
    ( /\ script = "validate_and_fix" /\ pc = "exit"
      /\ WellFormed(schema_file) /\ Parsed /\ data.t = "dict" ) =>
        /\ exit_code = 0
        /\ stdout = <<dumps(ordered_data)>>
        /\ ~HasLine("Traceback")

\* the repair pass has returned
Repaired == script = "validate_and_fix" /\ Len(calls) >= 2

\* C11: when the input is a list of two string literals written side by
\* side, with or without whitespace between them, the text heuristic_repair
\* returns is accepted by the parser and parses to the list of those two
\* strings.
C11_AdjacentStringsBecomeTwoElements ==
    \A s1 \in Words, s2 \in Words, gap \in Gaps :
        (Repaired /\ arg_input = AdjacentList(s1, gap, s2)) =>
            /\ loads(repaired_str).ok
            /\ loads(repaired_str).val = JList(<<JStr(s1), JStr(s2)>>)

\* the runs of at most MaxCut closers
CloserRuns == UNION { [1..k -> {"}", "]"}] : k \in 1..MaxCut }

\* the text lacks nothing but closers at its end
LacksClosers(text) ==
    /\ ~loads(text).ok
    /\ \E run \in CloserRuns : loads(text \o run).ok

\* C13: the text heuristic_repair returns holds at least as many } as {
\* and at least as many ] as [, and when the input lacked nothing but
\* closers at its end the parser accepts it.
C13_BalancingClosesTruncatedDocuments ==
    Repaired =>
        /\ Count(repaired_str, "}") >= Count(repaired_str, "{")
        /\ Count(repaired_str, "]") >= Count(repaired_str, "[")
        /\ LacksClosers(arg_input) => loads(repaired_str).ok

\* text without the character before its last one
WithoutComma(text) == SubSeq(text, 1, Len(text) - 2) \o <<text[Len(text)]>>

\* the text is that of a document with one comma put before its last closer
HasTrailingComma(text) ==
    /\ Len(text) >= 3
    /\ text[Len(text) - 1] = ","
    /\ text[Len(text)] \in {"}", "]"}
    /\ loads(WithoutComma(text)).ok

\* C14: when the input is the text of a document with one comma put before
\* its last closer, the text heuristic_repair returns parses to that
\* document.
C14_TrailingCommaRepairKeepsData ==
    (Repaired /\ HasTrailingComma(arg_input)) =>
        /\ loads(repaired_str).ok
        /\ loads(repaired_str).val = loads(WithoutComma(arg_input)).val

\* the call of process p printed the given line
Printed(p, line) == \E i \in 1..Len(proc[p].out) : proc[p].out[i] = line

C15_NoLostUpdate ==
    (\A p \in Procs : proc[p].pc \in {"done", "idle"} /\ proc[p].exit_code = 0) =>
        /\ cache_file.kind = "json"
        /\ \A p \in Procs :
              /\ cache_file.entries[proc[p].filepath] # NoEntry
              /\ \A path \in CachePaths :
                    proc[p].cache[path] # NoEntry =>
                        cache_file.entries[path] # NoEntry

====
